---- MODULE Spec2Model ----
(***************************************************************************)
(* Model of github_repo_fetcher.py: the paginated fetch of a user's        *)
(* repositories (fetcher), the JSON writer (write_file) and the two modes  *)
(* of the entry point (main).  The GitHub endpoint, the urllib3 retry      *)
(* layer configured by fetcher, the file system and standard input are     *)
(* the environment: their outcomes are chosen nondeterministically.        *)
(***************************************************************************)
EXTENDS Integers, Sequences, FiniteSets, TLC

VARIABLES
  pc,         \* where main is: start, prompt, get, returned, done
  args,       \* the parsed command line
  username,   \* the account name being fetched / the line input() returned
  page,       \* fetcher: the page to request
  retries,    \* the retry layer: Retry.total left for the current request
  attempts,   \* HTTP attempts made for the current session.get
  requested,  \* the pages session.get was called for, in order
  served,     \* the lengths of the bodies resp.json() returned, in order
  all_items,  \* fetcher: the records accumulated
  session,    \* none, open, closed
  opened,     \* sessions opened so far
  repos,      \* main: the last fetch result
  last,       \* the outcome of the latest HTTP attempt
  fs,         \* the files at the output paths
  exitCode,   \* the process's exit status, -1 while it runs
  message,    \* the last line main printed about a fetch
  calls,      \* fetcher calls so far
  eof         \* standard input is exhausted

vars == <<pc, args, username, page, retries, attempts, requested, served,
          all_items, session, opened, repos, last, fs, exitCode, message,
          calls, eof>>

(***************************************************************************)
(* Bounds of the model.                                                    *)
(***************************************************************************)
\* the endpoint serves at most this many pages: the last one is short
MaxPages == 2
\* fetches of one interactive run
MaxPrompts == 2

(***************************************************************************)
(* Program constants.                                                      *)
(***************************************************************************)
\* params["per_page"] and the bound of the short-page test
PerPage == 30
\* Retry(total=3): the number of retries urllib3 allows
RetryTotal == 3

StatusForcelist == {429, 500, 502, 503, 504}

\* urllib3's Retry.RETRY_AFTER_STATUS_CODES, consulted because
\* respect_retry_after_header=True
RetryAfterStatusCodes == {413, 429, 503}

(***************************************************************************)
(* JSON values: null, strings and integers, tagged so that values of       *)
(* different types can be compared.                                        *)
(***************************************************************************)
None == [t |-> "null", n |-> 0, s |-> ""]
JStr(x) == [t |-> "str", n |-> 0, s |-> x]
JInt(k) == [t |-> "int", n |-> k, s |-> ""]

\* Items the endpoint delivers: objects with more fields than the program
\* reads, with null fields and with absent fields.
ItemPool ==
  << [name |-> JStr("alpha"), description |-> JStr("first"),
      stargazers_count |-> JInt(7), language |-> JStr("Python"),
      created_at |-> JStr("2020-01-01T00:00:00Z"),
      updated_at |-> JStr("2024-05-01T00:00:00Z"), fork |-> JInt(0)],
     [name |-> JStr("beta"), description |-> None,
      stargazers_count |-> JInt(0),
      created_at |-> JStr("2021-02-02T00:00:00Z"),
      updated_at |-> JStr("2023-03-03T00:00:00Z")],
     [name |-> JStr("gamma"), description |-> JStr("third"),
      language |-> None, stars |-> JInt(99),
      updated_at |-> JStr("2022-06-06T00:00:00Z")] >>

\* The body of page p: len items, in the order the API delivers them.
Body(p, len) ==
  [i \in 1..len |-> ItemPool[((i + p) % Len(ItemPool)) + 1]]

(***************************************************************************)
(* Strings read from the command line and from standard input are          *)
(* sequences of characters.                                                *)
(***************************************************************************)
LowerChar(c) ==
  CASE c = "E" -> "e" [] c = "X" -> "x" [] c = "I" -> "i" [] c = "T" -> "t"
    [] c = "A" -> "a" [] OTHER -> c

lower(str) == [i \in DOMAIN str |-> LowerChar(str[i])]

IsSpace(c) == c \in {" ", "\t", "\n"}

strip(str) ==
  LET keep == {i \in DOMAIN str : ~IsSpace(str[i])}
  IN  IF keep = {} THEN <<>>
      ELSE LET lo == CHOOSE i \in keep : \A j \in keep : i <= j
               hi == CHOOSE i \in keep : \A j \in keep : j <= i
           IN  SubSeq(str, lo, hi)

ExitWord == <<"e", "x", "i", "t">>

\* username.lower().strip() == "exit"
IsExit(str) == strip(lower(str)) = ExitWord

\* Accounts the endpoint knows.
Accounts == {<<"a">>}

\* Lines standard input can deliver.
Inputs == { <<"e", "x", "i", "t">>, <<" ", "E", "x", "I", "T", "\n">>,
            <<"e", "x", " ", "i", "t">>, <<"a">> }

\* Values of args.username: absent (None), empty, or a name.
NoArg == [given |-> FALSE, v |-> <<>>]
Given(str) == [given |-> TRUE, v |-> str]

DefaultOutput == "github_repos.json"
Paths == {DefaultOutput, "out.json"}

\* Command lines: (--username, --output).
CommandLines ==
  { <<NoArg, "out.json">>,
    <<Given(<<"a">>), DefaultOutput>>, <<Given(<<"a">>), "out.json">>,
    <<Given(<<"z">>), DefaultOutput>> }

\* if args.username:
Truthy(a) == a.given /\ a.v # <<>>

(***************************************************************************)
(* fetcher: the record built from one API item.                            *)
(***************************************************************************)
\* the keys of `data`, in insertion order
FieldOrder ==
  <<"name", "description", "stars", "language", "created_at", "updated_at">>

Fields == {FieldOrder[i] : i \in DOMAIN FieldOrder}

\* repo.get(key): None when the key is absent
DictGet(d, key) == IF key \in DOMAIN d THEN d[key] ELSE None

\* the API key each field of `data` is read from
SrcKey(f) == IF f = "stars" THEN "stargazers_count" ELSE f

Extract(repo) == [f \in Fields |-> DictGet(repo, SrcKey(f))]

\* for repo in items: all_items.append(data)
AppendAll(acc, items) == acc \o [i \in DOMAIN items |-> Extract(items[i])]

\* a slip of the bound: a full page ends the loop too
ShortPage_AtMost(items) == Len(items) <= PerPage

\* if len(items) < 30: break
ShortPage(items) == Len(items) < PerPage

(***************************************************************************)
(* write_file: json.dump writes the list as a text, here its sequence of   *)
(* tokens: [ { key value ... } ... ].                                      *)
(***************************************************************************)
Punct(c) == [k |-> c, n |-> 0, s |-> ""]

\* a slip of the encoder: null printed as the string "null"
Encode_NullAsString(v) ==
  CASE v.t = "null" -> [k |-> "string", n |-> 0, s |-> "null"]
    [] v.t = "int" -> [k |-> "number", n |-> v.n, s |-> ""]
    [] v.t = "str" -> [k |-> "string", n |-> 0, s |-> v.s]

\* a JSON scalar as json.dump prints it
Encode(v) ==
  CASE v.t = "null" -> [k |-> "null", n |-> 0, s |-> ""]
    [] v.t = "int" -> [k |-> "number", n |-> v.n, s |-> ""]
    [] v.t = "str" -> [k |-> "string", n |-> 0, s |-> v.s]

ItemWidth == 2 + 2 * Len(FieldOrder)

json_dump(list) ==
  [i \in 1..(Len(list) * ItemWidth + 2) |->
     IF i = 1 THEN Punct("[")
     ELSE IF i = Len(list) * ItemWidth + 2 THEN Punct("]")
     ELSE LET j == ((i - 2) \div ItemWidth) + 1
              o == (i - 2) % ItemWidth
          IN  IF o = 0 THEN Punct("{")
              ELSE IF o = ItemWidth - 1 THEN Punct("}")
              ELSE IF o % 2 = 1
                   THEN Encode(JStr(FieldOrder[(o + 1) \div 2]))
                   ELSE Encode(list[j][FieldOrder[o \div 2]])]

\* Files: absent, or a text.
Absent == [exists |-> FALSE, text |-> <<>>]
File(text) == [exists |-> TRUE, text |-> text]
OldFile == File(<<Punct("{"), Punct("}")>>)

\* Outcomes of open(output_file, "w") followed by json.dump: the write
\* completes, open raises OSError, or the dump raises OSError after open
\* truncated the file.
WriteOutcomes == {"ok", "open_fails", "dump_fails"}

\* truthiness of a fetch result: None and [] are falsy
ReposTruthy(r) == ~r.none /\ r.list # <<>>

\* a slip of the guard: only the failure signal is skipped
WriteGuard_NotNone(r) == ~r.none

\* if repos: (write_file's own guard)
WriteGuard(r) == ReposTruthy(r)

\* the file system after write_file(r, path) under outcome w
write_file(files, r, path, w) ==
  IF ~WriteGuard(r) \/ w = "open_fails" THEN files
  ELSE IF w = "dump_fails"
       THEN [files EXCEPT ![path] =
               File(SubSeq(json_dump(r.list), 1, Len(r.list)))]
       ELSE [files EXCEPT ![path] = File(json_dump(r.list))]

\* write_file raises under outcome w
WriteRaises(r, w) == WriteGuard(r) /\ w # "ok"

(***************************************************************************)
(* The environment of session.get: what one HTTP attempt can end in.       *)
(***************************************************************************)
Outcome(kind, status, retry_after, ctype, json_ok, len) ==
  [kind |-> kind, status |-> status, retry_after |-> retry_after,
   ctype |-> ctype, json_ok |-> json_ok, len |-> len]

NoOutcome == Outcome("none", 0, FALSE, "", FALSE, 0)

TransportErrors ==
  {Outcome(k, 0, FALSE, "", FALSE, 0) :
     k \in {"connect_error", "connect_timeout", "read_timeout"}}

\* lengths of the page bodies the endpoint serves (per_page caps them)
PageLens(p) ==
  IF p >= MaxPages THEN {0, PerPage - 1} ELSE {0, PerPage - 1, PerPage}

JsonCtype == "application/json; charset=utf-8"

\* 200 responses for an account the endpoint knows
PageResponses(p) ==
  {Outcome("response", 200, FALSE, JsonCtype, TRUE, n) : n \in PageLens(p)}
  \cup {Outcome("response", 200, FALSE, JsonCtype, FALSE, 0),
        Outcome("response", 200, FALSE, "Application/JSON", TRUE, 1),
        Outcome("response", 200, FALSE, "text/html", FALSE, 0),
        Outcome("response", 200, FALSE, "", FALSE, 0)}

\* error responses: rate limiting and transient statuses, some of them
\* with a Retry-After header
ErrorResponses ==
  {Outcome("response", st, FALSE, JsonCtype, TRUE, 0) :
     st \in StatusForcelist \cup {403, 413}}
  \cup {Outcome("response", st, TRUE, JsonCtype, TRUE, 0) :
          st \in {403, 413, 429}}

\* GET /users/{user}/repos answers 404 for an account that does not exist
Outcomes(user, p) ==
  TransportErrors \cup ErrorResponses
  \cup (IF user \in Accounts THEN PageResponses(p)
        ELSE {Outcome("response", 404, FALSE, JsonCtype, TRUE, 0)})

(***************************************************************************)
(* The retry layer mounted on the session: Retry(total=3, status_forcelist,*)
(* allowed_methods=["GET"], raise_on_status=False,                         *)
(* respect_retry_after_header=True).                                       *)
(***************************************************************************)
\* a slip of the forcelist: 403 listed among the transient statuses
IsRetry_With403(status, has_retry_after, total) ==
  \/ status \in StatusForcelist \cup {403}
  \/ total # 0 /\ has_retry_after /\ status \in RetryAfterStatusCodes

\* Retry.is_retry for a GET response
IsRetry(status, has_retry_after, total) ==
  \/ status \in StatusForcelist
  \/ total # 0 /\ has_retry_after /\ status \in RetryAfterStatusCodes

\* the attempt's outcome asks for another attempt: a connection or read
\* error of a GET, or a response Retry.is_retry accepts
Retriable(o, total) ==
  o.kind # "response" \/ IsRetry(o.status, o.retry_after, total)

\* Retry.increment: total - 1; exhausted when it falls below 0
WillRetry(o, total) == Retriable(o, total) /\ total - 1 >= 0

(***************************************************************************)
(* fetcher: what it does with the outcome session.get ends in.             *)
(***************************************************************************)
NoneResult == [none |-> TRUE, list |-> <<>>]
ListResult(l) == [none |-> FALSE, list |-> l]

Return(r, acc, pg) == [ret |-> TRUE, result |-> r, acc |-> acc, page |-> pg]
Continue(acc, pg) ==
  [ret |-> FALSE, result |-> NoneResult, acc |-> acc, page |-> pg]

\* resp.raise_for_status()
RaisesForStatus(status) == 400 <= status /\ status < 600

\* "application/json" in ctype.lower()
CtypeIsJson(c) == c \in {JsonCtype, "Application/JSON"}

\* except Timeout / ConnectionError / RequestException / Exception
OnException(acc) == NoneResult

\* if resp.status_code == 403: ... return None
OnRateLimited(acc) == NoneResult

\* "Not JSON": return None
OnNotJson(acc) == NoneResult

\* a slip of the handler: the records accumulated so far are returned
OnInvalidJson_Partial(acc) == [none |-> FALSE, list |-> acc]

\* except ValueError: "Invalid JSON": return None
OnInvalidJson(acc) == NoneResult

\* the body of the while loop after session.get returned or raised
FetchStep(o, acc, pg) ==
  IF o.kind # "response" THEN Return(OnException(acc), acc, pg)
  ELSE IF o.status = 403 THEN Return(OnRateLimited(acc), acc, pg)
  ELSE IF RaisesForStatus(o.status) THEN Return(OnException(acc), acc, pg)
  ELSE IF ~CtypeIsJson(o.ctype) THEN Return(OnNotJson(acc), acc, pg)
  ELSE IF ~o.json_ok THEN Return(OnInvalidJson(acc), acc, pg)
  ELSE LET items == Body(pg, o.len)
       IN  IF items = <<>> THEN Return(ListResult(acc), acc, pg)
           ELSE LET acc2 == AppendAll(acc, items)
                IN  IF ShortPage(items)
                    THEN Return(ListResult(acc2), acc2, pg)
                    ELSE Continue(acc2, pg + 1)

\* a session that is never closed
SessionOnExit_Leak(s) == s

\* leaving the `with requests.Session() as session:` block
SessionOnExit(s) == "closed"

(***************************************************************************)
(* main.                                                                   *)
(***************************************************************************)
\* a loop that catches ValueError and end of input only
InteractiveCatches_NoOSError(exc) == exc \in {"ValueError", "EOFError"}

\* a loop that catches ValueError and I/O errors only
InteractiveCatches_NoEOF(exc) == exc \in {"ValueError", "OSError"}

\* except ValueError / except Exception: the classes the loop catches
InteractiveCatches(exc) == exc \in {"ValueError", "EOFError", "OSError"}

\* what main prints for a fetch result
Report(r) ==
  IF ReposTruthy(r) THEN "Repos logged"
  ELSE IF r.none THEN "Error fetching data." ELSE "No repos or Invalid account"

\* a slip of the branches: only the failure signal exits with 1
CliExit_EmptyOk(r, w) == IF r.none \/ WriteRaises(r, w) THEN 1 ELSE 0

\* the exit status of CLI mode: sys.exit(1) on a falsy result, an uncaught
\* exception of write_file, or the normal end of main
CliExit(r, w) == IF ReposTruthy(r) /\ ~WriteRaises(r, w) THEN 0 ELSE 1

(***************************************************************************)
(* State machine.                                                          *)
(***************************************************************************)
Init ==
  /\ pc = "start"
  /\ args = [username |-> NoArg, output |-> DefaultOutput]
  /\ username = <<>>
  /\ page = 1
  /\ retries = RetryTotal
  /\ attempts = 0
  /\ requested = <<>>
  /\ served = <<>>
  /\ all_items = <<>>
  /\ session = "none"
  /\ opened = 0
  /\ repos = NoneResult
  /\ last = NoOutcome
  /\ fs = [p \in Paths |-> IF p = DefaultOutput THEN OldFile ELSE Absent]
  /\ exitCode = -1
  /\ message = "none"
  /\ calls = 0
  /\ eof = FALSE

\* fetcher(user) up to its first session.get
EnterFetcher(user) ==
  /\ username' = user
  /\ all_items' = <<>>
  /\ page' = 1
  /\ session' = "open"
  /\ opened' = opened + 1
  /\ retries' = RetryTotal
  /\ attempts' = 0
  /\ requested' = <<>>
  /\ served' = <<>>
  /\ last' = NoOutcome
  /\ calls' = calls + 1
  /\ pc' = "get"

\* fetcher's locals, gone once main has its result
LocalsGone ==
  /\ page' = 1
  /\ retries' = RetryTotal
  /\ attempts' = 0
  /\ requested' = <<>>
  /\ served' = <<>>
  /\ all_items' = <<>>
  /\ last' = NoOutcome

\* main up to its first blocking call: parse_args, then CLI mode's fetch or
\* the interactive loop's first prompt
Main(cl) ==
  /\ pc = "start"
  /\ args' = [username |-> cl[1], output |-> cl[2]]
  /\ IF Truthy(cl[1])
     THEN EnterFetcher(cl[1].v)
     ELSE /\ pc' = "prompt"
          /\ UNCHANGED <<username, all_items, page, session, opened, retries,
                         attempts, requested, served, last, calls>>
  /\ UNCHANGED <<repos, fs, exitCode, message, eof>>

\* a session.get call starts with the adapter's Retry object
FreshRequest == Len(requested) < page

\* one HTTP attempt of session.get that urllib3 follows by another attempt
GetRetry(o) ==
  /\ pc = "get"
  /\ LET total == IF FreshRequest THEN RetryTotal ELSE retries
     IN  /\ WillRetry(o, total)
         /\ retries' = total - 1
  /\ attempts' = (IF FreshRequest THEN 0 ELSE attempts) + 1
  /\ requested' = IF FreshRequest THEN Append(requested, page) ELSE requested
  /\ last' = o
  /\ UNCHANGED <<pc, args, username, page, served, all_items, session, opened,
                 repos, fs, exitCode, message, calls, eof>>

\* the last HTTP attempt of session.get and the rest of the loop body: the
\* next page, or fetcher's return through the end of the with block
GetFinal(o) ==
  /\ pc = "get"
  /\ LET total == IF FreshRequest THEN RetryTotal ELSE retries
         st == FetchStep(o, all_items, page)
         parsed == /\ o.kind = "response" /\ o.status # 403
                   /\ ~RaisesForStatus(o.status)
                   /\ CtypeIsJson(o.ctype) /\ o.json_ok
     IN  /\ ~WillRetry(o, total)
         /\ retries' = IF Retriable(o, total) THEN total - 1 ELSE total
         /\ served' = IF parsed THEN Append(served, o.len) ELSE served
         /\ all_items' = st.acc
         /\ page' = st.page
         /\ IF st.ret
            THEN /\ repos' = st.result
                 /\ session' = SessionOnExit(session)
                 /\ pc' = "returned"
            ELSE UNCHANGED <<repos, session, pc>>
  /\ attempts' = (IF FreshRequest THEN 0 ELSE attempts) + 1
  /\ requested' = IF FreshRequest THEN Append(requested, page) ELSE requested
  /\ last' = o
  /\ UNCHANGED <<args, username, opened, fs, exitCode, message, calls, eof>>

\* CLI mode after fetcher returned
ReportCli(w) ==
  /\ pc = "returned"
  /\ Truthy(args.username)
  /\ fs' = IF ReposTruthy(repos) THEN write_file(fs, repos, args.output, w)
           ELSE fs
  /\ message' = IF ReposTruthy(repos) /\ WriteRaises(repos, w)
                THEN "Traceback" ELSE Report(repos)
  /\ exitCode' = CliExit(repos, w)
  /\ pc' = "done"
  /\ LocalsGone
  /\ UNCHANGED <<args, username, session, opened, repos, calls, eof>>

\* the interactive loop after fetcher returned
ReportInteractive(w) ==
  /\ pc = "returned"
  /\ ~Truthy(args.username)
  /\ fs' = IF ReposTruthy(repos) THEN write_file(fs, repos, DefaultOutput, w)
           ELSE fs
  /\ IF ReposTruthy(repos) /\ WriteRaises(repos, w)
     THEN IF InteractiveCatches("OSError")
          THEN /\ message' = "An Unexpected Error Occurred"
               /\ pc' = "prompt"
               /\ UNCHANGED exitCode
          ELSE /\ message' = "Traceback"
               /\ pc' = "done"
               /\ exitCode' = 1
     ELSE /\ message' = Report(repos)
          /\ pc' = "prompt"
          /\ UNCHANGED exitCode
  /\ LocalsGone
  /\ UNCHANGED <<args, username, session, opened, repos, calls, eof>>

\* input() returns a line: "exit" leaves the loop, anything else is fetched
Input(line) ==
  /\ pc = "prompt"
  /\ ~eof
  /\ IF IsExit(line)
     THEN /\ pc' = "done"
          /\ exitCode' = 0
          /\ username' = line
          /\ UNCHANGED <<all_items, page, session, opened, retries, attempts,
                         requested, served, last, calls>>
     ELSE /\ calls < MaxPrompts
          /\ EnterFetcher(line)
          /\ UNCHANGED exitCode
  /\ UNCHANGED <<args, repos, fs, message, eof>>

\* input() at the end of standard input raises EOFError
InputEOF ==
  /\ pc = "prompt"
  /\ eof' = TRUE
  /\ IF InteractiveCatches("EOFError")
     THEN /\ message' = "An Unexpected Error Occurred"
          /\ UNCHANGED <<pc, exitCode>>
     ELSE /\ message' = "Traceback"
          /\ pc' = "done"
          /\ exitCode' = 1
  /\ UNCHANGED <<args, username, page, retries, attempts, requested, served,
                 all_items, session, opened, repos, last, fs, calls>>

Next ==
  \/ \E cl \in CommandLines : Main(cl)
  \/ \E o \in Outcomes(username, page) : GetRetry(o)
  \/ \E o \in Outcomes(username, page) : GetFinal(o)
  \/ \E w \in WriteOutcomes : ReportCli(w)
  \/ \E w \in WriteOutcomes : ReportInteractive(w)
  \/ \E line \in Inputs : Input(line)
  \/ InputEOF

Spec == Init /\ [][Next]_vars

(***************************************************************************)
(* Properties.                                                             *)
(***************************************************************************)
Interactive == pc # "start" /\ ~Truthy(args.username)
CliMode == pc # "start" /\ Truthy(args.username)

\* the path main hands to write_file
OutPath == IF Truthy(args.username) THEN args.output ELSE DefaultOutput

\* the API items of the pages parsed so far, in the order of delivery
RECURSIVE ApiItems(_)
ApiItems(k) ==
  IF k = 0 THEN <<>> ELSE ApiItems(k - 1) \o Body(k, served[k])

\* the field of an API item, null when the item lacks it
FieldOrNull(item, key) == IF key \in DOMAIN item THEN item[key] ELSE None

\* every attempt of the current fetch ended in a 200 JSON page so far
Successful == pc \in {"get", "returned"} /\ Len(served) = Len(requested)

\* C1: when every page response is a successful JSON page, the pages
\* requested are 1, 2, 3, ... in order, one at a time; every page before the
\* last one served held at least 30 items; fetcher returns right after the
\* first page with fewer than 30 items without requesting another one; and
\* the list it returns has one record per item of these pages, in the order
\* the API delivered them.
C1_Pagination ==
  /\ pc \in {"get", "returned"} =>
       /\ requested = [i \in 1..Len(requested) |-> i]
       /\ Len(requested) \in {page - 1, page}
       /\ \A i \in 1..(Len(served) - 1) : served[i] >= 30
       /\ (pc = "get" /\ served # <<>>) => served[Len(served)] >= 30
  /\ (pc = "returned" /\ Successful) =>
       LET k == Len(served)
           items == ApiItems(k)
       IN  /\ ~repos.none
           /\ served[k] < 30
           /\ requested = [i \in 1..k |-> i]
           /\ Len(repos.list) = Len(items)
           /\ \A j \in 1..Len(items) :
                /\ repos.list[j]["name"] = FieldOrNull(items[j], "name")
                /\ repos.list[j]["updated_at"] =
                     FieldOrNull(items[j], "updated_at")

\* 30 items on page 1 and none on page 2: 30 records and 2 requests
C1_Witness ==
  /\ pc = "returned"
  /\ served = <<30, 0>>
  /\ requested = <<1, 2>>
  /\ ~repos.none
  /\ Len(repos.list) = 30

\* the outcome of an HTTP attempt is one of the failures of a page request
FailedOutcome(o) ==
  \/ o.kind \in {"connect_error", "connect_timeout", "read_timeout"}
  \/ /\ o.kind = "response"
     /\ \/ o.status = 403
        \/ o.status >= 400
        \/ o.ctype \in {"text/html", ""}
        \/ ~o.json_ok

\* C2: fetcher returns None exactly when the last page request ended in a
\* timeout, a connection error, an HTTP error status, a 403, a non-JSON
\* content type or a JSON parse failure, on the first page or a later one;
\* it returns an empty list only when page 1 succeeded with zero items, and
\* a non-empty list otherwise: never an empty or partial list after a
\* failure.
C2_ThreeOutcomes ==
  pc = "returned" =>
    /\ repos.none <=> FailedOutcome(last)
    /\ repos.none => repos.list = <<>>
    /\ (~repos.none /\ repos.list = <<>>) => served = <<0>> /\ page = 1
    /\ (~repos.none /\ served # <<0>>) => repos.list # <<>>

\* a parse failure on page 2 after 30 records were accumulated
C2_Witness ==
  /\ pc = "returned"
  /\ page = 2
  /\ Len(all_items) = 30
  /\ last.status = 200 /\ ~last.json_ok
  /\ repos.none

\* C3: a fetch for an account that does not exist, answered by the
\* endpoint, returns an empty list and not None, and main then reports
\* "No repos or Invalid account".
C3_MissingAccountIsEmpty ==
  (pc = "returned" /\ username \notin Accounts /\ last.status = 404) =>
    /\ ~repos.none
    /\ repos.list = <<>>
    /\ Report(repos) = "No repos or Invalid account"

\* the records of the last fetch are in the file at the output path
Written == fs[OutPath] = File(json_dump(repos.list))

\* C4 as stated: in CLI mode the exit status is 1 exactly when the fetch
\* result is None or empty, and 0 exactly when it holds a record, the
\* records then being in the output file.
C4_Original ==
  (pc = "done" /\ CliMode) =>
    /\ exitCode = 1 <=> ~ReposTruthy(repos)
    /\ exitCode = 0 <=> ReposTruthy(repos)
    /\ exitCode = 0 => Written

\* C4, amended: in CLI mode the exit status is 0 exactly when the fetch
\* returned at least one record and write_file wrote the records to the
\* --output path without raising; it is 1 otherwise: for None, for an empty
\* list, and when writing the file raises.
C4_ExitStatus ==
  (pc = "done" /\ CliMode) =>
    /\ exitCode \in {0, 1}
    /\ exitCode = 0 <=> (ReposTruthy(repos) /\ Written)
    /\ ~ReposTruthy(repos) => exitCode = 1
    /\ (exitCode = 1 /\ ReposTruthy(repos)) => message = "Traceback"

C4_Witness ==
  /\ pc = "done" /\ CliMode
  /\ exitCode = 0
  /\ Len(repos.list) = 30 + 29
  /\ args.output = "out.json"
  /\ Written

\* C5: in interactive mode every fetch outcome is reported and followed by
\* a new prompt; reading "exit" leaves the loop; and the process never ends
\* with a non-zero status.
C5_InteractiveNeverFails ==
  /\ [](Interactive => exitCode \in {-1, 0})
  /\ [](Interactive /\ pc = "done" => exitCode = 0)
  /\ [][(Interactive /\ pc = "returned") =>
          /\ pc' = "prompt"
          /\ repos.none => message' = "Error fetching data."
          /\ (~repos.none /\ repos.list = <<>>) =>
               message' = "No repos or Invalid account"
          /\ (~repos.none /\ repos.list # <<>>) =>
               message' \in {"Repos logged", "An Unexpected Error Occurred"}
       ]_vars
  /\ [][(pc = "prompt" /\ ~eof /\ username # ExitWord /\ username' = ExitWord)
          => pc' = "done"]_vars

\* a new prompt after a failed fetch, after an empty one, after a write
\* that raised
C5_Witness ==
  /\ Interactive /\ pc = "prompt"
  /\ calls = 2
  /\ message = "An Unexpected Error Occurred"
  /\ ReposTruthy(repos)
  /\ ~eof

\* C6 as stated: after main handled a fetch result, the output file holds
\* the records if and only if the result is a non-empty list.
C6_Original ==
  (pc \in {"prompt", "done"} /\ calls = 1 /\ ~eof /\ ~IsExit(username)) =>
    (ReposTruthy(repos) <=> Written)

\* C6, amended: the files change only when main handles a non-empty fetch
\* result: a failed or an empty fetch leaves every file as it was, in both
\* modes; a non-empty result is written to the output path, and to no
\* other, unless opening or writing the file raises.  write_file itself
\* leaves the files alone, and raises nothing, for None and for [].
C6_WriteFrame ==
  /\ [][fs' # fs => (pc = "returned" /\ ReposTruthy(repos))]_vars
  /\ [][(pc = "returned" /\ ReposTruthy(repos)
         /\ message' \notin {"Traceback", "An Unexpected Error Occurred"})
          => /\ fs'[OutPath] = File(json_dump(repos.list))
             /\ \A q \in Paths \ {OutPath} : fs'[q] = fs[q]]_vars
  /\ [](\A r \in {NoneResult, ListResult(<<>>)}, w \in WriteOutcomes,
            q \in Paths : write_file(fs, r, q, w) = fs /\ ~WriteRaises(r, w))
  /\ [](\A q \in Paths : fs[q].exists => fs[q].text # json_dump(<<>>))

\* an existing file untouched by a fetch that ended in a non-JSON response
C6_Witness ==
  /\ pc = "done" /\ CliMode
  /\ repos.none
  /\ args.output = DefaultOutput
  /\ fs[DefaultOutput] = OldFile
  /\ message = "Error fetching data."

\* json.load of a text json.dump wrote: the list of objects, each with the
\* keys and the scalars the text spells
Decode(tok) ==
  CASE tok.k = "null" -> None
    [] tok.k = "number" -> JInt(tok.n)
    [] tok.k = "string" -> JStr(tok.s)

ReadBack(text) ==
  [j \in 1..((Len(text) - 2) \div ItemWidth) |->
     LET base == 2 + (j - 1) * ItemWidth
         slots == 1..((ItemWidth - 2) \div 2)
         keys == {text[base + 2 * q - 1].s : q \in slots}
     IN  [key \in keys |->
            Decode(text[base + 2 * (CHOOSE q \in slots :
                                      text[base + 2 * q - 1].s = key)])]]

\* C7: the records fetcher returns are, in number and order, the API items
\* of the pages served, each with exactly the six fields name, description,
\* stars, language, created_at, updated_at read from the item's name,
\* description, stargazers_count, language, created_at, updated_at, null
\* for a field the item lacks; and the file write_file wrote reads back as
\* these records.
C7_RoundTrip ==
  /\ (pc = "returned" /\ ~repos.none) =>
       LET items == ApiItems(Len(served))
       IN  /\ Len(repos.list) = Len(items)
           /\ \A j \in 1..Len(items) :
                LET rec == repos.list[j]
                    item == items[j]
                IN  /\ DOMAIN rec = {"name", "description", "stars",
                                     "language", "created_at", "updated_at"}
                    /\ rec["name"] = FieldOrNull(item, "name")
                    /\ rec["description"] = FieldOrNull(item, "description")
                    /\ rec["stars"] = FieldOrNull(item, "stargazers_count")
                    /\ rec["language"] = FieldOrNull(item, "language")
                    /\ rec["created_at"] = FieldOrNull(item, "created_at")
                    /\ rec["updated_at"] = FieldOrNull(item, "updated_at")
  /\ (pc \in {"prompt", "done"} /\ message = "Repos logged") =>
       /\ fs[OutPath].exists
       /\ ReadBack(fs[OutPath].text) = repos.list

C7_Witness ==
  /\ pc = "prompt"
  /\ message = "Repos logged"
  /\ Len(repos.list) = 30 + 29
  /\ repos.list[1]["stars"] = None
  /\ repos.list[2]["stars"] = JInt(7)
  /\ repos.list[3]["language"] = None
  /\ ReadBack(fs[DefaultOutput].text) = repos.list

\* urllib3 is about to repeat the request after the attempt `last`
RetryPending == pc = "get" /\ ~FreshRequest

\* C8 as stated: at most 3 attempts per page request; a re-attempt only
\* after a response with status 429, 500, 502, 503 or 504; no retry of a
\* 403, which ends the fetch with None; None when the attempts are
\* exhausted on a transient status.
C8_Original ==
  /\ attempts <= 3
  /\ RetryPending =>
       (last.kind = "response" /\ last.status \in {429, 500, 502, 503, 504})
  /\ (pc = "returned" /\ last.status = 403) =>
       (repos.none /\ Len(requested) = page)
  /\ (pc = "returned" /\ last.status \in {429, 500, 502, 503, 504}) =>
       repos.none

\* C8, amended: at most 4 attempts per page request, the first one and up
\* to 3 retries; a re-attempt only after a response with status 429, 500,
\* 502, 503 or 504, after a 413, 429 or 503 response with a Retry-After
\* header, or after a connection or read error; no retry of a 403, which
\* ends the fetch with None and without another page request; None when
\* the attempts are exhausted on a transient status.
C8_BoundedRetry ==
  /\ attempts <= 4
  /\ RetryPending =>
       /\ attempts <= 3
       /\ \/ last.kind \in {"connect_error", "connect_timeout", "read_timeout"}
          \/ last.status \in {429, 500, 502, 503, 504}
          \/ last.retry_after /\ last.status \in {413, 429, 503}
       /\ last.status # 403
  /\ (pc = "returned" /\ last.status = 403) =>
       (repos.none /\ Len(requested) = page)
  /\ (pc = "returned" /\ last.status \in {429, 500, 502, 503, 504}) =>
       (repos.none /\ attempts = 4)

\* the fourth attempt of page 2 answered 503: None
C8_Witness ==
  /\ pc = "returned"
  /\ page = 2
  /\ attempts = 4
  /\ last.status = 503
  /\ repos.none

\* C9: one session per fetcher call, open while the call requests pages
\* and closed on every path by the time fetcher has returned: no session is
\* open while main reports, prompts or exits.
C9_SessionScoped ==
  /\ opened = calls
  /\ pc = "get" <=> session = "open"
  /\ (pc \in {"returned", "prompt", "done"} /\ calls > 0) =>
       session = "closed"
  /\ calls = 0 => session = "none"

\* between two fetches of the interactive loop, after a fetch that failed
C9_Witness ==
  /\ pc = "prompt"
  /\ calls = 1
  /\ repos.none
  /\ message = "Error fetching data."
  /\ session = "closed"

\* C10: the interactive loop is left only from the prompt, by an input that
\* is "exit" once lower-cased and stripped; an exception caught in the loop
\* is followed by a new prompt; and once standard input is exhausted the
\* loop never ends.
C10_LoopEndsOnlyOnExit ==
  /\ [][(Interactive /\ pc # "done" /\ pc' = "done") =>
          (pc = "prompt" /\ ~eof /\ strip(lower(username')) = ExitWord)]_vars
  /\ [][(Interactive /\ pc = "returned"
         /\ message' = "An Unexpected Error Occurred") => pc' = "prompt"]_vars
  /\ [][(~eof /\ eof') => (pc = "prompt" /\ pc' = "prompt")]_vars
  /\ [][eof => (eof' /\ pc' = "prompt")]_vars

\* end of input after a fetch, the loop still prompting
C10_Witness ==
  /\ Interactive /\ pc = "prompt"
  /\ eof
  /\ calls = 1
  /\ message = "An Unexpected Error Occurred"

====
